---- MODULE Spec2Model ----
(***************************************************************************)
(* AskMyNotes voice turn pipeline.                                         *)
(*                                                                         *)
(*   - the relay  : backend/server.js, app.post("/voice")                  *)
(*   - the client : frontend/src/components/ChatInterface.tsx              *)
(*                                                                         *)
(* The relay handler is an async function: the code between two awaits     *)
(* runs without interleaving, so each action below is one such segment.    *)
(* Texts (transcript, answer) are sequences of character codes so that     *)
(* the header validation of res.setHeader can be computed.                 *)
(***************************************************************************)
EXTENDS Integers, Sequences, FiniteSets, TLC

(* ------------------------------------------------------------------ *)
(* Bounds                                                              *)
(* ------------------------------------------------------------------ *)

\* number of POST /voice requests handled by the process
NumReq == 2

\* last value of the millisecond clock Date.now() (first is 0)
MaxClock == 1

ReqIds == 1..NumReq

\* number of startRecording() calls of one page session
MaxRec == 2

RecIds == 1..MaxRec

\* number of text questions sent (handleSend) in one page session
MaxText == 1

TextIds == 1..MaxText

\* number of startRecording() calls in a page session that also sends text
MaxChatRec == 1

(* ------------------------------------------------------------------ *)
(* Texts                                                               *)
(* ------------------------------------------------------------------ *)

\* "" ; "hi" ; U+2019 (right single quotation mark, outside Latin-1)
EmptyText == <<>>
Transcripts == {EmptyText, <<104, 105>>, <<8217>>}

\* answers of the QA backend: "" (or missing) ; "ok" ; "\n"
Answers == {EmptyText, <<111, 107>>, <<10>>}

\* a header that was never set
Unset == <<-1>>

\* file names of the uploaded part: "", "voice.webm", "a.b.wav", "noext"
OrigNames == {<<>>, <<"voice", ".", "webm">>, <<"a", ".", "b", ".", "wav">>,
              <<"noext">>}

(* ------------------------------------------------------------------ *)
(* Pure helpers of the relay                                           *)
(* ------------------------------------------------------------------ *)

\* origName.includes(".") ? origName.split(".").pop() : "webm", on
\* req.file.originalname || "upload.webm"
RECURSIVE LastPart(_)
LastPart(name) ==
  IF name = <<>> THEN ""
  ELSE IF name[Len(name)] = "." THEN ""
  ELSE IF Len(name) = 1 THEN name[1]
  ELSE LastPart(SubSeq(name, 2, Len(name)))

HasDot(name) == \E i \in 1..Len(name) : name[i] = "."

ExtOf(origName) ==
  LET n == IF origName = <<>> THEN <<"upload", ".", "webm">> ELSE origName
  IN IF HasDot(n) THEN LastPart(n) ELSE "webm"

\* join(tmpDir, `voice-upload-${Date.now()}.${ext}`)
TmpPathOf(clock, ext) == <<clock, ext>>

\* Node's header value check used by res.setHeader: a value holding a
\* character outside \t, \x20-\x7e, \x80-\xff makes setHeader throw
InvalidHeaderChar(text) ==
  \E i \in 1..Len(text) :
    ~(text[i] = 9 \/ (text[i] >= 32 /\ text[i] <= 126)
                  \/ (text[i] >= 128 /\ text[i] <= 255))

\* x || y on strings
OrElse(x, y) == IF x = EmptyText THEN y ELSE x

(* ------------------------------------------------------------------ *)
(* State                                                               *)
(* ------------------------------------------------------------------ *)

VARIABLES
  \* ---- the relay (server.js)
  now,     \* Date.now()
  fs,      \* the temp directory: set of <<path, request whose bytes it holds>>
  req      \* per request: position in the handler (pc), its locals (tmpPath,
           \* transcript, responseText, ttsInput = the input of the pending
           \* TTS call), the response sent (resp), and history: the number
           \* of calls made to each upstream and how each call ended
           \* (stt, qa, tts)

VARIABLES
  \* ---- the client (ChatInterface.tsx)
  continuous,   \* useState: continuous mode
  recording,    \* useState: recording
  isLoading,    \* useState: isLoading
  messages,     \* useState: the message log
  recorderRef,  \* mediaRecorderRef.current (0 = null)
  chunks,       \* chunksRef.current: each chunk named by its recorder
  turn,         \* every startRecording() call and the voice turn it leads to
  started,      \* number of startRecording() calls so far
  query         \* every handleSend() call: "none", "pending", "done"

srvVars == <<now, fs, req>>
cliVars == <<continuous, recording, isLoading, messages, recorderRef, chunks,
             turn, started, query>>
vars == <<srvVars, cliVars>>

NoResponse ==
  [status |-> 0, ctype |-> "", xTranscript |-> Unset, xResponse |-> Unset,
   body |-> "none", bodyLen |-> 0, error |-> ""]

JsonError(code, kind) ==
  [status |-> code, ctype |-> "application/json", xTranscript |-> Unset,
   xResponse |-> Unset, body |-> "json", bodyLen |-> 1, error |-> kind]

\* req.headers.authorization: no such header (<<>>), or the header's value
NoAuth == <<>>
AuthHeaders == {NoAuth, <<"">>, <<"Bearer t1">>}

\* auth is the request's Authorization header, kept from the step that reads
\* it (line 108) to the end of the QA backend call; qaAuth is the one the QA
\* backend call carries; answer is data.answer of the QA backend's 2xx reply
\* ("" when it is missing or when there is no such reply), kept until the
\* handler is over
InitReq ==
  [pc |-> "new", hasAudio |-> FALSE, tmpPath |-> <<>>,
   auth |-> NoAuth, qaAuth |-> NoAuth, answer |-> EmptyText,
   transcript |-> EmptyText, responseText |-> EmptyText,
   ttsInput |-> Unset, sttCalls |-> 0, qaCalls |-> 0, ttsCalls |-> 0,
   stt |-> "", qa |-> "", tts |-> "", resp |-> NoResponse]

SrvInit ==
  /\ now = 0
  /\ fs = {}
  /\ req = [r \in ReqIds |-> InitReq]

\* a startRecording() call that has not happened yet.  st is the position of
\* the call and of the turn that follows it; cc is the value of `continuous`
\* in the render whose closures run the turn (startRecording, the recorder's
\* onstop = sendVoiceMessage, audio.onended, the play().catch handler).
\* stream is the MediaStream getUserMedia gave the call ("none", "live");
\* posts counts the fetch("/voice") calls of the turn, blob is the size of the
\* audio blob the turn read (-1: none) and why keeps what made
\* sendVoiceMessage throw.
NoTurn == [st |-> "none", cc |-> FALSE, stream |-> "none", posts |-> 0,
           blob |-> -1, why |-> ""]

CliInit ==
  /\ continuous = FALSE
  /\ recording = FALSE
  /\ isLoading = FALSE
  /\ messages = <<>>
  /\ recorderRef = 0
  /\ chunks = <<>>
  /\ turn = [r \in RecIds |-> NoTurn]
  /\ started = 0
  /\ query = [k \in TextIds |-> "none"]

Init == SrvInit /\ CliInit

FsExists(files, path) == \E f \in files : f[1] = path

\* fs.writeFileSync(path, bytes): creates or truncates the file; a write that
\* fails after the open (disk full) leaves the file in place
FsWrite(files, path, r) ==
  {f \in files : f[1] # path} \cup {<<path, r>>}

\* if (fs.existsSync(tmpPath)) fs.unlinkSync(tmpPath)
FsUnlink(files, path) == {f \in files : f[1] # path}

(* ------------------------------------------------------------------ *)
(* POST /voice                                                         *)
(* ------------------------------------------------------------------ *)

\* return res.status(..)...: the response is sent and the handler returns, its
\* locals go with its frame
Return(rq, response) ==
  [rq EXCEPT !.pc = "done", !.resp = response, !.tmpPath = <<>>,
             !.auth = NoAuth, !.qaAuth = NoAuth, !.answer = EmptyText,
             !.transcript = EmptyText, !.responseText = EmptyText,
             !.ttsInput = Unset]

\* the guard of line 64 left out
AudioMissingNoGuard(hasAudio) == FALSE

\* !req.file || !req.file.buffer
AudioMissing(hasAudio) == ~hasAudio

\* fs.writeFileSync: done ; throws before the file is created ; throws after
WriteOutcomes == {"ok", "fail_nofile", "fail_partial"}

\* lines 71-87: the temp file is written and the STT call issued, or the
\* write fails (lines 78-81)
Prepare(rq, w, path) ==
  IF w = "ok"
  THEN [rq EXCEPT !.pc = "stt", !.tmpPath = path, !.sttCalls = @ + 1]
  ELSE Return(rq, JsonError(500, "Failed to prepare audio for transcription"))

\* lines 64-87: from the entry of the handler to the await of the STT call
Arrive(r) ==
  /\ req[r].pc = "new"
  /\ \E hasAudio \in BOOLEAN :
       IF AudioMissing(hasAudio)
       THEN /\ req' = [req EXCEPT ![r] =
                 Return([@ EXCEPT !.hasAudio = hasAudio],
                        JsonError(400, "Audio file missing"))]
            /\ fs' = fs
       ELSE \E name \in OrigNames, w \in WriteOutcomes :
              LET path == TmpPathOf(now, ExtOf(name))
              IN /\ fs' = IF w = "fail_nofile" THEN fs
                          ELSE FsWrite(fs, path, r)
                 /\ req' = [req EXCEPT ![r] =
                      Prepare([@ EXCEPT !.hasAudio = hasAudio], w, path)]
  /\ now' = now
  /\ UNCHANGED cliVars

\* the clock moves on between two segments; Date.now() is read at line 71
\* only, so its value matters while a request is still to arrive
Tick ==
  /\ now < MaxClock
  /\ \E r \in ReqIds : req[r].pc = "new"
  /\ now' = now + 1
  /\ UNCHANGED <<fs, req>>
  /\ UNCHANGED cliVars

\* no header is forwarded
ForwardAuthNone(auth) == NoAuth

\* lines 106-108: forwardHeaders.authorization, set
\* if (req.headers.authorization)
ForwardAuth(auth) == IF auth # NoAuth /\ auth[1] # "" THEN auth ELSE NoAuth

\* the TTS call issued together with the QA backend call
SttSuccessStartsTts(rq, text) ==
  [rq EXCEPT !.pc = "qa", !.tmpPath = <<>>, !.transcript = text,
             !.responseText = text, !.qaCalls = @ + 1, !.ttsCalls = @ + 1,
             !.qaAuth = ForwardAuth(rq.auth)]

\* lines 88, 105-113: transcript taken, QA backend call issued (tmpPath is
\* not read again after the finally block)
SttSuccess(rq, text) ==
  [rq EXCEPT !.pc = "qa", !.tmpPath = <<>>, !.transcript = text,
             !.responseText = text, !.qaCalls = @ + 1,
             !.qaAuth = ForwardAuth(rq.auth)]

\* the catch of the STT block without its return: the handler goes on with
\* the initial transcript ""
SttFailureFallsThrough(rq) == SttSuccess(rq, EmptyText)

\* lines 92-97: the catch of the STT block
SttFailure(rq) == Return(rq, JsonError(502, "Speech-to-text failed"))

\* outcomes of openai.audio.transcriptions.create: a throw, or stt?.text || ""
SttOutcomes ==
  {[ok |-> FALSE, text |-> EmptyText]} \cup
  {[ok |-> TRUE, text |-> t] : t \in Transcripts}

\* lines 87-113: the STT call returns; catch / finally; up to the QA await
SttReturn(r) ==
  /\ req[r].pc = "stt"
  /\ \E out \in SttOutcomes :
     \E auth \in IF out.ok THEN AuthHeaders ELSE {NoAuth} :
       LET rq == [req[r] EXCEPT !.stt = IF out.ok THEN "ok" ELSE "fail",
                                !.auth = auth]
       IN req' = [req EXCEPT ![r] =
                    IF out.ok THEN SttSuccess(rq, out.text)
                    ELSE SttFailure(rq)]
  /\ fs' = FsUnlink(fs, req[r].tmpPath)
  /\ now' = now
  /\ UNCHANGED cliVars

\* fetch throws ; pyResp.ok is false ; pyResp.json() throws ; {answer}
QaOutcomes ==
  {[kind |-> k, answer |-> EmptyText] : k \in {"throw", "non2xx", "badjson"}}
  \cup {[kind |-> "ok", answer |-> a] : a \in Answers}

\* data.answer taken as it is, with no fallback to the transcript
ResponseTextNoFallback(transcript, out) == out.answer

\* lines 105, 114-123: responseText after the QA backend call has settled
ResponseTextAfterQa(transcript, out) ==
  IF out.kind = "ok" THEN OrElse(out.answer, transcript) ELSE transcript

\* how the QA backend call ended, as kept in the history field qa: "ok" when
\* the backend answered 2xx with a JSON body, "fail" when fetch threw,
\* pyResp.ok was false or pyResp.json() threw
QaHistory(out) == IF out.kind = "ok" THEN "ok" ELSE "fail"

\* lines 109-128: the QA call settles; the TTS call is issued
QaReturn(r) ==
  /\ req[r].pc = "qa"
  /\ \E out \in QaOutcomes :
       LET text == ResponseTextAfterQa(req[r].transcript, out)
       IN req' = [req EXCEPT ![r] =
                    [@ EXCEPT !.pc = "tts", !.responseText = text,
                              !.qa = QaHistory(out),
                              !.answer = out.answer,
                              !.auth = NoAuth, !.qaAuth = NoAuth,
                              !.ttsCalls = @ + 1, !.ttsInput = text]]
  /\ UNCHANGED <<now, fs>>
  /\ UNCHANGED cliVars

\* what openai.audio.speech.create gives: a throw, or a value of some shape
\* holding len bytes ("response": has arrayBuffer(); "rejects": arrayBuffer()
\* rejects; "chunks": async iterable; "buffer": a Buffer; "other": none)
TtsOutcomes ==
  [shape : {"throw", "rejects"}, len : {0}] \cup
  [shape : {"response", "chunks", "buffer", "other"}, len : 0..1]

\* how the TTS call ended, as kept in the history field tts: "throw" when
\* the call or arrayBuffer() threw, "other" for a value of no known shape,
\* "value" when the provider returned one of the three documented shapes
TtsHistory(out) ==
  IF out.shape \in {"throw", "rejects"} THEN "throw"
  ELSE IF out.shape = "other" THEN "other" ELSE "value"

\* the final else of lines 138-140 left out: any value is taken as a Buffer
TtsSupportedNoElse(shape) == shape \notin {"throw", "rejects"}

\* lines 129-140: the shapes the handler can turn into a Buffer
TtsSupported(shape) == shape \in {"response", "chunks", "buffer"}

\* lines 126-144: audioBuffer.length, or -1 when the try block throws
NormalizeTts(out) == IF TtsSupported(out.shape) THEN out.len ELSE -1

\* res.setHeader("X-Transcript", transcript); res.setHeader("X-Response", ..)
HeadersAccepted(rq) ==
  ~InvalidHeaderChar(rq.transcript) /\ ~InvalidHeaderChar(rq.responseText)

\* lines 150-154
Send200(rq, len) ==
  Return(rq, [status |-> 200, ctype |-> "audio/mpeg",
              xTranscript |-> rq.transcript, xResponse |-> rq.responseText,
              body |-> "audio", bodyLen |-> len, error |-> ""])

\* setHeader throws on a value with an invalid character and the handler's
\* promise rejects with nothing sent: the framework either leaves the request
\* without a response ("hang") or answers 500 itself
HeaderThrows(rq, fw) ==
  IF fw = "hang"
  THEN [Return(rq, NoResponse) EXCEPT !.pc = "hung"]
  ELSE Return(rq, [status |-> 500, ctype |-> "text/html",
                   xTranscript |-> Unset, xResponse |-> Unset,
                   body |-> "html", bodyLen |-> 1,
                   error |-> "Invalid character in header content"])

\* lines 141-148: the two synthesis failures
TtsFailure(rq, len) ==
  Return(rq, JsonError(502, IF len < 0 THEN "Text-to-speech failed"
                            ELSE "Empty audio generated"))

\* !audioBuffer || audioBuffer.length === 0
EmptyAudio(len) == len = 0

\* lines 128-154: the TTS call settles; normalisation; the response
TtsReturn(r) ==
  /\ req[r].pc = "tts"
  /\ \E out \in TtsOutcomes :
       LET len == NormalizeTts(out)
           rq  == [req[r] EXCEPT !.tts = TtsHistory(out)]
       IN IF len < 0 \/ EmptyAudio(len)
          THEN req' = [req EXCEPT ![r] = TtsFailure(rq, len)]
          ELSE IF HeadersAccepted(rq)
          THEN req' = [req EXCEPT ![r] = Send200(rq, len)]
          ELSE \E fw \in {"hang", "handler"} :
                 req' = [req EXCEPT ![r] = HeaderThrows(rq, fw)]
  /\ UNCHANGED <<now, fs>>
  /\ UNCHANGED cliVars

SrvNext ==
  \/ \E r \in ReqIds : Arrive(r)
  \/ \E r \in ReqIds : SttReturn(r)
  \/ \E r \in ReqIds : QaReturn(r)
  \/ \E r \in ReqIds : TtsReturn(r)
  \/ Tick

Spec == Init /\ [][SrvNext]_vars

(* ------------------------------------------------------------------ *)
(* Properties of the relay                                             *)
(* ------------------------------------------------------------------ *)

\* the handler of request r is over: it returned or threw
Finished(r) == req[r].pc \in {"done", "hung"}

SynthesisErrors == {"Text-to-speech failed", "Empty audio generated"}

\* C1: a request that carries audio is answered 200 with a non-empty
\* audio/mpeg body and both X-Transcript and X-Response set, or 502 with a
\* JSON error body; nothing else.
C1_Response200Or502 ==
  \A r \in ReqIds :
    (Finished(r) /\ req[r].hasAudio) =>
      \/ /\ req[r].resp.status = 200
         /\ req[r].resp.ctype = "audio/mpeg"
         /\ req[r].resp.body = "audio" /\ req[r].resp.bodyLen > 0
         /\ req[r].resp.xTranscript # Unset /\ req[r].resp.xResponse # Unset
      \/ /\ req[r].resp.status = 502
         /\ req[r].resp.body = "json"

\* C2: when the QA backend call throws or answers non-2xx, and STT and TTS
\* succeed, the request is answered 200 and X-Response equals X-Transcript.
C2_QaFailureStill200 ==
  \A r \in ReqIds :
    (/\ Finished(r)
     /\ req[r].stt = "ok"
     /\ req[r].qa = "fail"
     /\ req[r].tts = "value"
     /\ req[r].resp.error \notin SynthesisErrors) =>
      /\ req[r].resp.status = 200
      /\ req[r].resp.xResponse = req[r].resp.xTranscript

\* C3: a request without the audio part is answered 400 with a JSON error
\* body, calls no upstream and leaves no temporary file.
C3_MissingAudio400 ==
  \A r \in ReqIds :
    (req[r].pc # "new" /\ ~req[r].hasAudio) =>
      /\ req[r].pc = "done"
      /\ req[r].resp.status = 400 /\ req[r].resp.body = "json"
      /\ req[r].sttCalls = 0 /\ req[r].qaCalls = 0 /\ req[r].ttsCalls = 0
      /\ \A f \in fs : f[2] # r

C3_Witness ==
  \E r \in ReqIds :
    req[r].pc = "done" /\ ~req[r].hasAudio /\ req[r].resp.status = 400

\* C4: once a request has sent its response, no temporary file it created
\* exists any more.
C4_TempFileGone ==
  \A r \in ReqIds :
    (req[r].pc = "done" /\ req[r].resp.status # 0) => \A f \in fs : f[2] # r

\* C5: when the STT call fails the request is answered 502 with the
\* transcription error and neither the QA backend nor TTS is ever called.
C5_SttFailureStops ==
  \A r \in ReqIds :
    req[r].stt = "fail" =>
      /\ req[r].pc = "done"
      /\ req[r].resp.status = 502 /\ req[r].resp.body = "json"
      /\ req[r].resp.error = "Speech-to-text failed"
      /\ req[r].qaCalls = 0 /\ req[r].ttsCalls = 0

C5_Witness ==
  \E r \in ReqIds :
    req[r].stt = "fail" /\ req[r].sttCalls = 1 /\ req[r].resp.status = 502

\* C6: when the TTS call throws, or gives a value that is neither a Buffer,
\* nor has arrayBuffer(), nor is an async chunk sequence, the request is
\* answered 502 with the synthesis error, no audio body and neither
\* X-Transcript nor X-Response.
C6_TtsFailure502 ==
  \A r \in ReqIds :
    req[r].tts \in {"throw", "other"} =>
      /\ req[r].pc = "done"
      /\ req[r].resp.status = 502 /\ req[r].resp.body = "json"
      /\ req[r].resp.error = "Text-to-speech failed"
      /\ req[r].resp.xTranscript = Unset /\ req[r].resp.xResponse = Unset

C6_Witness ==
  \E r1 \in ReqIds, r2 \in ReqIds :
    /\ req[r1].tts = "other" /\ req[r1].resp.status = 502
    /\ req[r2].tts = "throw" /\ req[r2].resp.status = 502

\* C7: any two requests are given distinct temporary file names; stated for
\* the case the claim singles out, two requests that are both waiting for
\* STT on their temporary file.
C7_DistinctTempNames ==
  \A r1 \in ReqIds, r2 \in ReqIds :
    (r1 # r2 /\ req[r1].pc = "stt" /\ req[r2].pc = "stt") =>
      req[r1].tmpPath # req[r2].tmpPath


(* ------------------------------------------------------------------ *)
(* The client: ChatInterface.tsx                                       *)
(*                                                                     *)
(* Every handler runs to its next await without interleaving; React    *)
(* renders again after each handler, so the toggle button's onClick    *)
(* and its disabled flag read the current state.  The functions a      *)
(* handler calls are those of its own render: a turn started by a      *)
(* click keeps, through startRecording, mr.onstop = sendVoiceMessage,  *)
(* audio.onended and the play().catch handler, the value `continuous`  *)
(* had in the render of that click (turn[r].cc).                       *)
(* ------------------------------------------------------------------ *)

Msg(role, kind, r) == [role |-> role, kind |-> kind, of |-> r]

\* lines 96-98: startRecording() called from a closure whose `continuous`
\* is cc: getUserMedia is asked for, the call waits on it
StartRecording(cc) ==
  /\ started < MaxRec
  /\ started' = started + 1
  /\ turn' = [turn EXCEPT ![started + 1] =
                [NoTurn EXCEPT !.st = "asking", !.cc = cc]]

\* lines 111-114: mediaRecorderRef.current?.stop(); setRecording(false).
\* stop() on a recorder that is not recording does nothing.
StopRecording ==
  /\ turn' = IF recorderRef # 0 /\ turn[recorderRef].st = "recording"
             THEN [turn EXCEPT ![recorderRef].st = "stopping"]
             ELSE turn
  /\ recording' = FALSE

\* lines 278-285, else branch: the button is clicked with continuous off
ToggleOn ==
  /\ ~isLoading
  /\ ~continuous
  /\ continuous' = TRUE
  /\ StartRecording(continuous)
  /\ UNCHANGED <<recording, isLoading, messages, recorderRef, chunks>>
  /\ UNCHANGED <<query, srvVars>>

\* lines 278-281: the button is clicked with continuous on
ToggleOff ==
  /\ ~isLoading
  /\ continuous
  /\ continuous' = FALSE
  /\ StopRecording
  /\ UNCHANGED <<isLoading, messages, recorderRef, chunks, started>>
  /\ UNCHANGED <<query, srvVars>>

\* lines 98-105: getUserMedia resolves, the recorder is created and started
GetUserMediaResolves(r) ==
  /\ turn[r].st = "asking"
  /\ turn' = [turn EXCEPT ![r].st = "recording", ![r].stream = "live"]
  /\ chunks' = <<>>
  /\ recorderRef' = r
  /\ recording' = TRUE
  /\ UNCHANGED <<continuous, isLoading, messages, started>>
  /\ UNCHANGED <<query, srvVars>>

\* the catch of startRecording switching continuous mode off
GetUserMediaRejectsResets(r) ==
  /\ turn[r].st = "asking"
  /\ turn' = [turn EXCEPT ![r].st = "denied"]
  /\ continuous' = FALSE
  /\ UNCHANGED <<recording, isLoading, messages, recorderRef, chunks, started>>
  /\ UNCHANGED <<query, srvVars>>

\* lines 106-108: getUserMedia rejects (permission refused, no device)
GetUserMediaRejects(r) ==
  /\ turn[r].st = "asking"
  /\ turn' = [turn EXCEPT ![r].st = "denied"]
  /\ UNCHANGED <<continuous, recording, isLoading, messages, recorderRef,
                 chunks, started>>
  /\ UNCHANGED <<query, srvVars>>

\* line 101: mr.ondataavailable with a blob of the given size
OnDataAvailable(cs, r, size) == IF size > 0 THEN Append(cs, r) ELSE cs

\* line 117: chunksRef.current.length === 0
NothingToSend(cs) == Len(cs) = 0

\* lines 127-131: fetch("/voice", { method: "POST", body: form, headers })
PostVoice(t) == [t EXCEPT !.st = "fetch", !.posts = @ + 1]

\* lines 101-102, 116-127: the stopped recorder delivers its data and fires
\* stop; onstop = sendVoiceMessage runs up to the await of fetch("/voice")
RecorderStops(r) ==
  /\ turn[r].st = "stopping"
  /\ \E size \in 0..1 :
       LET cs == OnDataAvailable(chunks, r, size)
       IN /\ chunks' = cs
          /\ IF NothingToSend(cs)
             THEN /\ turn' = [turn EXCEPT ![r].st = "unsent"]
                  /\ isLoading' = isLoading
             ELSE /\ turn' = [turn EXCEPT ![r] = PostVoice(@)]
                  /\ isLoading' = TRUE
  /\ UNCHANGED <<continuous, recording, messages, recorderRef, started>>
  /\ UNCHANGED <<query, srvVars>>

\* the catch block posting the recording again
TurnFailsRetries(r, log, why, size) ==
  /\ messages' = log
  /\ isLoading' = isLoading
  /\ turn' = [turn EXCEPT ![r] = PostVoice(@)]

\* lines 173-181: catch and finally of sendVoiceMessage, after a throw for
\* the reason why, with the log as it was when it was thrown and the size of
\* the blob read by then
TurnFails(r, log, why, size) ==
  /\ messages' = Append(log, Msg("assistant", "error", r))
  /\ isLoading' = FALSE
  /\ turn' = [turn EXCEPT ![r].st = "failed", ![r].why = why,
                          ![r].blob = size]

\* fetch rejects ; !res.ok ; 2xx without an audio content type ; 2xx audio
FetchOutcomes == {"neterr", "non2xx", "notaudio", "audio"}

\* the user message appended before res.ok is looked at
ThrownBeforeTranscriptNever(out) == FALSE

\* lines 127-138: the fetch rejected, or !res.ok threw; both come before the
\* user message of lines 140-142
ThrownBeforeTranscript(out) == out \in {"neterr", "non2xx"}

\* lines 127-150: the fetch settles; up to the await of res.blob()
FetchSettles(r) ==
  /\ turn[r].st = "fetch"
  /\ \E out \in FetchOutcomes :
       LET withUser == Append(messages, Msg("user", "transcript", r))
       IN IF out # "audio"
          THEN TurnFails(r, IF ThrownBeforeTranscript(out) THEN messages
                            ELSE withUser, out, -1)
          ELSE /\ messages' = withUser
               /\ turn' = [turn EXCEPT ![r].st = "blob"]
               /\ isLoading' = isLoading
  /\ UNCHANGED <<continuous, recording, recorderRef, chunks, started>>
  /\ UNCHANGED <<query, srvVars>>

\* res.blob() rejects (-1) or gives a blob of that size
BlobOutcomes == {-1, 0, 1}

\* the check of lines 151-153 left out
EmptyBlobNoCheck(size) == FALSE

\* line 151: audioBlob.size === 0
EmptyBlob(size) == size = 0

\* lines 150-181: the body is read; playback is started
BlobSettles(r) ==
  /\ turn[r].st = "blob"
  /\ \E size \in BlobOutcomes :
       IF size < 0 THEN TurnFails(r, messages, "blobreject", -1)
       ELSE IF EmptyBlob(size) THEN TurnFails(r, messages, "emptyblob", size)
       ELSE /\ messages' = Append(messages, Msg("assistant", "response", r))
            /\ turn' = [turn EXCEPT ![r].st = "playing", ![r].blob = size]
            /\ isLoading' = FALSE
  /\ UNCHANGED <<continuous, recording, recorderRef, chunks, started>>
  /\ UNCHANGED <<query, srvVars>>

\* lines 158-160, 164: if (continuous) setTimeout(() => startRecording(), 200)
\* with the `continuous` of the turn's closure
PlaybackSettled(r) ==
  turn' = [turn EXCEPT ![r].st = IF turn[r].cc THEN "waiting" ELSE "over"]

\* lines 157-161: audio.onended
PlaybackEnds(r) ==
  /\ turn[r].st = "playing"
  /\ PlaybackSettled(r)
  /\ UNCHANGED <<continuous, recording, isLoading, messages, recorderRef,
                 chunks, started>>
  /\ UNCHANGED <<query, srvVars>>

\* lines 162-165: audio.play() rejects
PlayRejected(r) ==
  /\ turn[r].st = "playing"
  /\ PlaybackSettled(r)
  /\ UNCHANGED <<continuous, recording, isLoading, messages, recorderRef,
                 chunks, started>>
  /\ UNCHANGED <<query, srvVars>>

\* lines 159, 164: the timer callback () => startRecording().  No turn ever
\* waits for it (RestartNeverScheduled below), so it is no disjunct of CliNext.
RestartTimerFires(r) ==
  /\ turn[r].st = "waiting"
  /\ started < MaxRec
  /\ started' = started + 1
  /\ turn' = [turn EXCEPT ![r].st = "over",
                          ![started + 1] =
                            [NoTurn EXCEPT !.st = "asking", !.cc = turn[r].cc]]
  /\ UNCHANGED <<continuous, recording, isLoading, messages, recorderRef,
                 chunks>>
  /\ UNCHANGED <<query, srvVars>>

\* the assistant message of a settled text question replacing the log
TextReplyRewrites(log, k, ok) ==
  <<Msg("assistant", IF ok THEN "answer" ELSE "texterror", k)>>

\* lines 79-89: setMessages((prev) => [...prev, assistant]) or, from the
\* catch, the "Error contacting backend" message
TextReply(log, k, ok) ==
  Append(log, Msg("assistant", IF ok THEN "answer" ELSE "texterror", k))

\* lines 64-70, 292-303: the form is submitted with a non-blank input (the
\* input and the submit button are disabled while isLoading, continuous or
\* recording); up to the await of queryBackend
HandleSend(k) ==
  /\ ~isLoading /\ ~continuous /\ ~recording
  /\ query[k] = "none"
  /\ \A j \in TextIds : j < k => query[j] # "none"
  /\ messages' = Append(messages, Msg("user", "text", k))
  /\ isLoading' = TRUE
  /\ query' = [query EXCEPT ![k] = "pending"]
  /\ UNCHANGED <<continuous, recording, recorderRef, chunks, turn, started>>
  /\ UNCHANGED srvVars

\* lines 70-92: queryBackend resolves, or rejects ("Not authenticated", a
\* failed POST /doc/query); catch and finally
TextSettles(k) ==
  /\ query[k] = "pending"
  /\ \E ok \in BOOLEAN : messages' = TextReply(messages, k, ok)
  /\ isLoading' = FALSE
  /\ query' = [query EXCEPT ![k] = "done"]
  /\ UNCHANGED <<continuous, recording, recorderRef, chunks, turn, started>>
  /\ UNCHANGED srvVars

CliNext ==
  \/ ToggleOn
  \/ ToggleOff
  \/ \E r \in RecIds : GetUserMediaResolves(r)
  \/ \E r \in RecIds : GetUserMediaRejects(r)
  \/ \E r \in RecIds : RecorderStops(r)
  \/ \E r \in RecIds : FetchSettles(r)
  \/ \E r \in RecIds : BlobSettles(r)
  \/ \E r \in RecIds : PlaybackEnds(r)
  \/ \E r \in RecIds : PlayRejected(r)

\* the voice controller alone: no text question is sent
ClientSpec == Init /\ [][CliNext]_vars

\* the whole component: the voice controller and the text form
ChatNext ==
  \/ started < MaxChatRec /\ ToggleOn
  \/ ToggleOff
  \/ \E r \in RecIds : GetUserMediaResolves(r)
  \/ \E r \in RecIds : GetUserMediaRejects(r)
  \/ \E r \in RecIds : RecorderStops(r)
  \/ \E r \in RecIds : FetchSettles(r)
  \/ \E r \in RecIds : BlobSettles(r)
  \/ \E r \in RecIds : PlaybackEnds(r)
  \/ \E r \in RecIds : PlayRejected(r)
  \/ \E k \in TextIds : HandleSend(k)
  \/ \E k \in TextIds : TextSettles(k)

ChatSpec == Init /\ [][ChatNext]_vars

\* The relay and the client share no variable: a run of the two together is a
\* run of each, and a property of one side that holds in every run of that
\* side holds in the pair.  PipelineSpec runs one side or the other from the
\* initial state; it is the specification of the properties that speak of
\* both sides.
PipelineNext ==
  \/ CliInit /\ SrvNext
  \/ SrvInit /\ CliNext

PipelineSpec == Init /\ [][PipelineNext]_vars

(* ------------------------------------------------------------------ *)
(* Properties of the client                                            *)
(* ------------------------------------------------------------------ *)

\* the closures of every turn hold continuous = false (startRecording is only
\* ever called from a render in which continuous is false), so no restart
\* is scheduled and the timer callback never runs
RestartNeverScheduled ==
  \A r \in RecIds : ~turn[r].cc /\ turn[r].st # "waiting"

ActiveRecordings == {r \in RecIds : turn[r].st = "recording"}

\* controller states of the turn machine
Sending == \E r \in RecIds : turn[r].st \in {"fetch", "blob"}
Playing == \E r \in RecIds : turn[r].st = "playing"

\* C8: at every moment at most one recorder is started and not yet stopped.
C8_OneActiveRecording == Cardinality(ActiveRecordings) <= 1

\* C9: while a turn is in flight (Sending or Playing) an attempt to start a
\* recording does nothing: no startRecording() call is made, so no microphone
\* is asked for and no recorder is created.
C9_NoStartWhileInFlight ==
  [][(Sending \/ Playing) => started' = started]_vars

\* C11: a response with a zero-length body is a failed turn: an error message
\* is appended and no playback is ever started for it; on the relay a
\* zero-length synthesized buffer is answered 502, not 200.
C11_EmptyAudioIsFailure ==
  /\ \A r \in RecIds :
       turn[r].blob = 0 =>
         /\ turn[r].st = "failed"
         /\ \E i \in 1..Len(messages) :
              messages[i] = Msg("assistant", "error", r)
         /\ \A i \in 1..Len(messages) :
              messages[i] # Msg("assistant", "response", r)
  /\ \A q \in ReqIds :
       /\ (req[q].resp.status = 200 => req[q].resp.bodyLen > 0)
       /\ (req[q].resp.error = "Empty audio generated" =>
             req[q].resp.status = 502 /\ req[q].tts = "value")

C11_Witness ==
  /\ \E r \in RecIds : turn[r].blob = 0 /\ turn[r].why = "emptyblob"
  /\ SrvInit

\* C12 as stated: the QA backend call carries the request's Authorization
\* header as it came, and none when the request has none.
C12_AuthForwardedUnchanged ==
  \A q \in ReqIds : req[q].pc = "qa" => req[q].qaAuth = req[q].auth

\* C12: a non-empty Authorization header is forwarded unchanged to the QA
\* backend call of the same request; when the request has no Authorization
\* header, or one with an empty value, the QA backend call carries none.
C12_NonEmptyAuthForwarded ==
  \A q \in ReqIds :
    req[q].pc = "qa" =>
      /\ (req[q].auth \notin {NoAuth, <<"">>} => req[q].qaAuth = req[q].auth)
      /\ (req[q].auth \in {NoAuth, <<"">>} => req[q].qaAuth = NoAuth)

C12_Witness ==
  \E q \in ReqIds :
    /\ req[q].pc = "qa"
    /\ req[q].auth = <<"Bearer t1">>
    /\ req[q].qaAuth = <<"Bearer t1">>

\* C13: once a recording has ended (stopped, with or without chunks), the
\* media stream getUserMedia gave it is released.
C13_StreamReleased ==
  \A r \in RecIds :
    turn[r].st \notin {"none", "asking", "denied", "recording"} =>
      turn[r].stream # "live"

\* C14: a recording is posted to the relay at most once, also after a
\* failure, and a relay request calls each of STT, QA backend and TTS at most
\* once.
C14_AtMostOneAttempt ==
  /\ \A r \in RecIds :
       /\ turn[r].posts <= 1
       /\ (turn[r].st = "failed" => turn[r].posts = 1)
  /\ \A q \in ReqIds :
       req[q].sttCalls <= 1 /\ req[q].qaCalls <= 1 /\ req[q].ttsCalls <= 1

C14_Witness ==
  /\ \E r \in RecIds :
       turn[r].st = "failed" /\ turn[r].why = "non2xx" /\ turn[r].posts = 1
  /\ \E r \in RecIds :
       turn[r].st = "failed" /\ turn[r].why = "neterr" /\ turn[r].posts = 1

\* C15: when the relay request fails (the fetch rejects or the response is
\* not 2xx) the step that handles it ends the turn, appends exactly one
\* message, the assistant's error message, and no user message, clears the
\* loading flag, reads no audio, and starts no recording.
C15_RelayFailureOneErrorTurn ==
  [][\A r \in RecIds :
       (turn[r].st = "fetch" /\ turn'[r].why \in {"neterr", "non2xx"}) =>
         /\ turn'[r].st = "failed"
         /\ messages' = Append(messages, Msg("assistant", "error", r))
         /\ isLoading' = FALSE
         /\ turn'[r].blob = -1
         /\ started' = started /\ recording' = recording]_vars

C15_Witness ==
  \E r \in RecIds :
    /\ turn[r].st = "failed" /\ turn[r].why \in {"neterr", "non2xx"}
    /\ messages = <<Msg("assistant", "error", r)>>
    /\ ~isLoading

\* C16: when getUserMedia rejects (access refused, no device), a message for
\* that attempt is in the conversation.
C16_MicRefusalShown ==
  \A r \in RecIds :
    turn[r].st = "denied" =>
      \E i \in 1..Len(messages) : messages[i].of = r

\* C17: from its write until its STT call has returned, the temporary file a
\* request streams to STT exists and holds that request's own audio.
C17_OwnTempFile ==
  \A q \in ReqIds :
    req[q].pc = "stt" => <<req[q].tmpPath, q>> \in fs

\* C18: within one request the stages run in the order temp-file write, STT,
\* QA backend, TTS, response: the STT call is issued only for a request with
\* audio, the QA backend call only after the STT call has returned
\* successfully, the TTS call only after the QA backend call has settled
\* (successfully or not), and 200 is sent only after the TTS call returned.
C18_StagesInOrder ==
  \A q \in ReqIds :
    /\ (req[q].sttCalls > 0 => req[q].hasAudio)
    /\ (req[q].stt # "" => req[q].sttCalls > 0)
    /\ (req[q].qaCalls > 0 => req[q].stt = "ok")
    /\ (req[q].qa # "" => req[q].qaCalls > 0)
    /\ (req[q].ttsCalls > 0 => req[q].qa \in {"ok", "fail"})
    /\ (req[q].tts # "" => req[q].ttsCalls > 0)
    /\ (req[q].resp.status = 200 => req[q].tts = "value")
    /\ (req[q].pc = "stt" => req[q].qaCalls = 0 /\ req[q].ttsCalls = 0)
    /\ (req[q].pc = "qa" => req[q].ttsCalls = 0)

C18_Witness ==
  \E q1 \in ReqIds, q2 \in ReqIds :
    /\ req[q1].resp.status = 200 /\ req[q1].qa = "fail"
    /\ req[q2].resp.status = 200 /\ req[q2].qa = "ok"

\* C19: when continuous mode is on and the playback of a turn ends, a restart
\* is scheduled (Playing -> ContinuousWaiting).
C19_PlaybackEndSchedulesRestart ==
  [][\A r \in RecIds :
       (turn[r].st = "playing" /\ turn'[r].st # "playing" /\ continuous) =>
         turn'[r].st = "waiting"]_vars

\* C20: what follows a settled playback is decided by the value continuous
\* mode has at that moment, not by the value the turn's recording began
\* with: where the two differ, a restart is scheduled exactly when the mode
\* is on now, and with the mode off no recording starts.
C20_CurrentModeDecides ==
  [][\A r \in RecIds :
       (turn[r].st = "playing" /\ turn'[r].st # "playing") =>
         /\ (continuous # turn[r].cc =>
               (turn'[r].st = "waiting" <=> continuous))
         /\ (~continuous => turn'[r].st = "over" /\ started' = started)]_vars

\* C21: a rejected play() advances the turn like the end of a playback: with
\* continuous mode on a restart is scheduled, with continuous mode off the
\* turn is over; the turn does not stay in Playing.
C21_PlayRejectedAdvances ==
  [][\A r \in RecIds :
       PlayRejected(r) =>
         turn'[r].st = IF continuous THEN "waiting" ELSE "over"]_vars

\* C22: a recording that toggling continuous mode off has stopped is aborted:
\* what it buffered is not submitted to the relay.
C22_ToggleOffDiscards ==
  [][\A r \in RecIds :
       turn[r].st = "stopping" => turn'[r].st \in {"stopping", "unsent"}]_vars

\* C23: when a voice turn fails while continuous mode is on, the next capture
\* is scheduled (after the delay), not started at once and not skipped.
C23_FailureSchedulesRestart ==
  [][\A r \in RecIds :
       (/\ turn[r].st \in {"fetch", "blob"}
        /\ turn'[r].st \notin {"fetch", "blob", "playing"}
        /\ continuous) =>
         turn'[r].st = "waiting" /\ started' = started]_vars

IsPrefix(s, t) == Len(s) <= Len(t) /\ SubSeq(t, 1, Len(s)) = s

InLog(log, m) == \E i \in 1..Len(log) : log[i] = m

\* C24: every step leaves the log as it is or appends to its end (a text
\* send, a text reply, a voice turn's messages): no earlier message is
\* removed, moved or rewritten.  The step that appends the assistant message
\* of a voice turn finds the turn's user message already in the log and
\* starts the playback itself.
C24_LogAppendOnly ==
  [][/\ IsPrefix(messages, messages')
     /\ \A r \in RecIds :
          (/\ InLog(messages', Msg("assistant", "response", r))
           /\ ~InLog(messages, Msg("assistant", "response", r))) =>
            /\ InLog(messages, Msg("user", "transcript", r))
            /\ turn'[r].st = "playing"]_vars

C24_Witness ==
  /\ Len(messages) = 4
  /\ \E r \in RecIds : InLog(messages, Msg("assistant", "response", r))
  /\ \E k \in TextIds : InLog(messages, Msg("assistant", "answer", k))

\* C25: the continuous-mode flag changes only in the toggle handler: every
\* other step (a recording starting or failing to start, a recorder stopping,
\* a turn sent, settled or failed, a playback ended or rejected, a text
\* question sent or answered) leaves it as it is.
C25_OnlyToggleChangesContinuous ==
  [][continuous' # continuous => ToggleOn \/ ToggleOff]_vars

C25_Witness ==
  /\ continuous
  /\ \E r \in RecIds : turn[r].st = "denied"

\* C26: the payload a stopped recording posts to the relay (the chunks held
\* by chunksRef when sendVoiceMessage builds the blob) holds chunks of that
\* recording only, none of an earlier one.
C26_PayloadOfOneSession ==
  [][\A r \in RecIds :
       (turn[r].st = "stopping" /\ turn'[r].st = "fetch") =>
         \A i \in 1..Len(chunks') : chunks'[i] = r]_vars

\* C27: a handler that is over has sent a response (exactly one: resp is
\* written by the one return or send that ends the handler).
C27_OneResponse ==
  \A q \in ReqIds : Finished(q) => req[q].resp.status # 0

\* C28: the step that sends 200 sets X-Transcript to the STT text, and
\* X-Response to the QA backend's answer when the backend replied 2xx with a
\* non-empty answer, to the transcript in every other case.
C28_ResponseHeaders ==
  [][\A q \in ReqIds :
       (req[q].pc = "tts" /\ req'[q].resp.status = 200) =>
         /\ req'[q].resp.xTranscript = req[q].transcript
         /\ req'[q].resp.xResponse =
              IF req[q].qa = "ok" /\ req[q].answer # EmptyText
              THEN req[q].answer ELSE req[q].transcript]_vars

C28_Witness ==
  \E q1 \in ReqIds, q2 \in ReqIds :
    /\ req[q1].resp.status = 200 /\ req[q1].qa = "ok"
    /\ req[q1].resp.xResponse # req[q1].resp.xTranscript
    /\ req[q2].resp.status = 200 /\ req[q2].qa = "fail"
    /\ req[q2].resp.xResponse = req[q2].resp.xTranscript
    /\ req[q2].resp.xTranscript # EmptyText

\* a text question or a voice relay request is in flight
RequestPending ==
  \/ \E k \in TextIds : query[k] = "pending"
  \/ Sending

\* C29: the loading flag is true while a text question or a voice relay
\* request is in flight, and false once none is.
C29_LoadingWhilePending == isLoading <=> RequestPending

\* C30: when a recorder stops having buffered no chunk of its own, nothing
\* is posted to the relay, no message is appended and the loading flag is
\* left as it is.
C30_EmptyRecordingSendsNothing ==
  [][\A r \in RecIds :
       (/\ turn[r].st = "stopping" /\ turn'[r].st # "stopping"
        /\ \A i \in 1..Len(chunks') : chunks'[i] # r) =>
         /\ turn'[r].st = "unsent" /\ turn'[r].posts = 0
         /\ messages' = messages
         /\ isLoading' = isLoading]_vars

====
